---- MODULE Spec2Model ----
(***************************************************************************)
(* A model of pilota-build's middle::context: the ContextBuilder passes    *)
(* (collect, collect_items, workspace_collect_def_ids), the plugin driver  *)
(* Context::exec_plugin, the naming function Context::rust_name and the    *)
(* literal evaluator Context::lit_into_ty / lit_as_rvalue / def_lit.       *)
(***************************************************************************)
EXTENDS Integers, Sequences, FiniteSets, TLC

VARIABLES
    db,             \* the RootDatabase the builder was constructed with
    mode,           \* ContextBuilder.mode: "Workspace" or "SingleFile"
    cmode,          \* the CollectMode passed to collect: "All" or "OnlyUsed"
    touches,        \* OnlyUsed.touches, flattened to (file, item name) entries
    touch_pos,      \* the entry of touches the flat_map is at
    extra_def_ids,  \* the def ids resolved from the touches so far
    input_items,    \* ContextBuilder.input_items
    codegen_items,  \* ContextBuilder.codegen_items / Context.codegen_items
    phase,          \* position in collect / build / exec_plugin
    stack,          \* pending calls of the inner fn collect (innermost first)
    set,            \* collect_items: the FxHashSet being built
    scan,           \* collect_items: Const nodes the db.nodes() loop has yet to reach
    visits,         \* how often each definition got past the guard of collect
    map,            \* workspace_collect_def_ids: the FxHashMap being built
    location_map,   \* WorkspaceInfo.location_map
    warnings,       \* number of cargo:warning lines printed
    cur_item,       \* tls::CUR_ITEM (0 when unbound)
    calls,          \* the plugin callbacks made so far, in order
    change_case,    \* Context.change_case
    name_in,        \* rust_name: the node asked about
    name_out,       \* rust_name: the returned Symbol
    lit_in,         \* lit_into_ty / def_lit: the literal and the target type
    lit_out         \* lit_into_ty / def_lit: the result

vars == <<db, mode, cmode, touches, touch_pos, extra_def_ids, input_items, codegen_items,
          phase, stack, set, scan, visits, map, location_map, warnings,
          cur_item, calls, change_case, name_in, name_out, lit_in, lit_out>>

(***************************************************************************)
(* Bounds of the model.                                                    *)
(***************************************************************************)
MaxRoots == 1

MaxTouchNames == 1

MaxInput == 2

MaxPairs == 2

MaxListLen == 2

\* visits counts up to VisitCap and stays there.
VisitCap == 2

(***************************************************************************)
(* Helpers on sequences and sets.                                          *)
(***************************************************************************)
Range(s) == {s[i] : i \in 1..Len(s)}

RECURSIVE Flatten(_)
Flatten(ss) == IF ss = <<>> THEN <<>> ELSE Head(ss) \o Flatten(Tail(ss))

Reverse(s) == [i \in 1..Len(s) |-> s[Len(s) + 1 - i]]

RECURSIVE Ascending(_)
Ascending(S) ==
    IF S = {} THEN <<>>
    ELSE LET m == CHOOSE x \in S : \A y \in S : x <= y
         IN <<m>> \o Ascending(S \ {m})

SeqsUpTo(S, n) == UNION {[1..k -> S] : k \in 0..n}

(***************************************************************************)
(* rir::Ty: a tree whose only nodes with an identity are paths.            *)
(***************************************************************************)
TyPrim(t) == [t |-> t, did |-> 0, args |-> <<>>]

TyPath(d) == [t |-> "Path", did |-> d, args |-> <<>>]

TyVec(a) == [t |-> "Vec", did |-> 0, args |-> <<a>>]

TyMap(k, v) == [t |-> "Map", did |-> 0, args |-> <<k, v>>]

\* ty::Visitor::visit: calls visit_path once per path of the tree, in tree order.
RECURSIVE VisitPaths(_)
VisitPaths(ty) ==
    IF ty.t = "Path" THEN <<ty.did>>
    ELSE Flatten([i \in 1..Len(ty.args) |-> VisitPaths(ty.args[i])])

(***************************************************************************)
(* The database.  Ten nodes in two files; "f1" is the only declared input  *)
(* file.  Three type slots, the iteration order of the hash containers and *)
(* the order of the elements of the Vecs vary from one database to the     *)
(* next.                                                                   *)
(*   1 Mod m {2, 3}        2 Message A        3 Mod inner {4, 9}           *)
(*   4 Enum E              5 Service S        6 Service Base               *)
(*   7 NewType T           8 Const C          9 Const K                    *)
(*   10 Variant V of E (a node that is no item)                            *)
(***************************************************************************)
NoTy == TyPrim("None")

\* The same Vec with its elements in the other order.
VecOrder(vrev, v) == IF vrev THEN Reverse(v) ELSE v

MkDb(slotA, slotT, slotC, rev, vrev) ==
    [kind |-> <<"Mod", "Message", "Mod", "Enum", "Service", "Service",
                "NewType", "Const", "Const", "Variant">>,
     name |-> <<"m", "A", "inner", "E", "S", "Base", "T", "C", "K", "V">>,
     file_id |-> <<"f1", "f1", "f1", "f1", "f1", "f2", "f2", "f2", "f1", "f1">>,
     related_nodes |-> <<<<>>, <<>>, <<>>, <<>>, <<7>>, <<>>, <<>>, <<>>, <<>>, <<>>>>,
     fields |-> <<<<>>, VecOrder(vrev, <<TyPrim("I32"), slotA>>), <<>>, <<>>, <<>>, <<>>,
                  <<>>, <<>>, <<>>, <<>>>>,
     variants |-> <<<<>>, <<>>, <<>>, <<<<TyPath(2)>>>>, <<>>, <<>>,
                    <<>>, <<>>, <<>>, <<>>>>,
     extend |-> <<<<>>, <<>>, <<>>, <<>>, <<6>>, <<>>, <<>>, <<>>, <<>>, <<>>>>,
     methods |-> <<<<>>, <<>>, <<>>, <<>>,
                   <<[args |-> <<TyPath(2)>>, ret |-> TyPrim("I32")]>>,
                   <<[args |-> <<>>, ret |-> TyVec(TyPath(4))]>>,
                   <<>>, <<>>, <<>>, <<>>>>,
     ty |-> <<NoTy, NoTy, NoTy, NoTy, NoTy, NoTy, slotT, slotC, TyPrim("I32"), NoTy>>,
     items |-> <<VecOrder(vrev, <<2, 3>>), <<>>, VecOrder(vrev, <<4, 9>>), <<>>, <<>>, <<>>, <<>>, <<>>, <<>>, <<>>>>,
     files |-> [f1 |-> VecOrder(vrev, <<1, 5>>), f2 |-> VecOrder(vrev, <<6, 7, 8>>)],
     package |-> [f1 |-> <<"pkg", "a">>, f2 |-> <<"dep">>],
     input_files |-> {"f1"},
     rev |-> rev]

SlotA == {TyPrim("I32"), TyPath(2), TyVec(TyPath(7))}

SlotT == {TyPrim("I32"), TyPath(2)}

SlotC == {TyPrim("I32"), TyMap(TyPrim("I32"), TyPath(4))}

Databases ==
    {MkDb(a, t, c, r, v) : a \in SlotA, t \in SlotT, c \in SlotC,
                           r \in BOOLEAN, v \in BOOLEAN}

DefIds == DOMAIN db.kind

FileIds == DOMAIN db.files

ItemKinds == {"Message", "Enum", "Service", "NewType", "Const", "Mod"}

\* NodeKind::Item(_)
IsItem(d) == db.kind[d] \in ItemKinds

\* matches!(item, Item::Mod(_))
IsMod(d) == db.kind[d] = "Mod"

\* The order in which a FxHashMap / FxHashSet hands out the ids of S.
HashOrder(S) == IF db.rev THEN Reverse(Ascending(S)) ELSE Ascending(S)

\* db.nodes(), in iteration order.
Nodes == HashOrder(DefIds)

RootIds == {1, 5, 7}

TouchEntries ==
    {[file |-> "f1", name |-> "m"], [file |-> "f2", name |-> "T"],
     [file |-> "f1", name |-> "T"], [file |-> "f0", name |-> "m"]}

(***************************************************************************)
(* collect_items and workspace_collect_def_ids: what one call of the inner *)
(* fn collect recurses into, in call order.                                *)
(***************************************************************************)
MethodTys(m) == m.args \o <<m.ret>>

ItemEdges(d) ==
    CASE db.kind[d] = "Message" ->
           Flatten([i \in 1..Len(db.fields[d]) |-> VisitPaths(db.fields[d][i])])
      [] db.kind[d] = "Enum" ->
           LET tys == Flatten(db.variants[d])
           IN Flatten([i \in 1..Len(tys) |-> VisitPaths(tys[i])])
      [] db.kind[d] = "Service" ->
           LET tys == Flatten([i \in 1..Len(db.methods[d]) |->
                                  MethodTys(db.methods[d][i])])
           IN db.extend[d] \o Flatten([i \in 1..Len(tys) |-> VisitPaths(tys[i])])
      [] db.kind[d] = "NewType" -> VisitPaths(db.ty[d])
      [] db.kind[d] = "Const" -> VisitPaths(db.ty[d])
      [] db.kind[d] = "Mod" -> db.items[d]

\* Mutant: the related nodes are not followed.
CollectCalls_NoRelated(d) == ItemEdges(d)

CollectCalls(d) == db.related_nodes[d] \o ItemEdges(d)

\* Mutant: the visited guard never fires.
InSet_Never(d, s) == FALSE

\* fn collect, lines 173-175: the visited guard.
InSet(d, s) == d \in s

\* Mutant: a Mod enters the set like any other item.
Insert_Any(d, s) == s \cup {d}

\* fn collect, lines 176-178: every item but a Mod enters the set.
Insert(d, s) == IF ~IsMod(d) THEN s \cup {d} ELSE s

RECURSIVE JoinWith(_, _)
JoinWith(path, sep) ==
    IF path = <<>> THEN ""
    ELSE IF Len(path) = 1 THEN path[1]
    ELSE path[1] \o sep \o JoinWith(Tail(path), sep)

\* Context::crate_name
CrateName(location) ==
    IF location.tag = "Fixed" THEN JoinWith(location.path, "_") ELSE "common"

\* Mutant: the test of the input-file set is inverted.
DefLocationOf_Inverted(d) ==
    IF db.file_id[d] \notin db.input_files
    THEN [tag |-> "Fixed", path |-> db.package[db.file_id[d]]]
    ELSE [tag |-> "Dynamic", path |-> <<>>]

\* DefLocation of a definition, from its file.
DefLocationOf(d) ==
    IF db.file_id[d] \in db.input_files
    THEN [tag |-> "Fixed", path |-> db.package[db.file_id[d]]]
    ELSE [tag |-> "Dynamic", path |-> <<>>]

\* Mutant: definitions of files that are no input files are passed over.
Located_Inputs(d, m) == d \in DOMAIN m \/ db.file_id[d] \notin db.input_files

\* workspace fn collect, lines 248-250: the guard.
Located(d, m) == d \in DOMAIN m

\* Mutant: only the definitions of the input files are entered in the map.
Locate_OnlyFixed(d, m) ==
    IF ~IsMod(d) /\ db.file_id[d] \in db.input_files
    THEN m @@ (d :> DefLocationOf(d)) ELSE m

\* workspace fn collect, lines 251-259.
Locate(d, m) == IF ~IsMod(d) THEN m @@ (d :> DefLocationOf(d)) ELSE m

EmptyMap == [d \in {} |-> 0]

\* Mutant: the loop over db.nodes() adds nothing.
ConstNodes_None == <<>>

\* The Const items db.nodes() yields, in iteration order (lines 221-227).
ConstNodes == SelectSeq(Nodes, LAMBDA d : IsItem(d) /\ db.kind[d] = "Const")

\* CollectMode::All, lines 98-109.
AllItems == SelectSeq(Nodes, LAMBDA d : IsItem(d) /\ ~IsMod(d))

\* Mutant: the name is looked up in every file.
FindItem_AnyFile(file, name) ==
    LET hit == {d \in DOMAIN db.name : db.name[d] = name}
    IN IF hit = {} THEN 0 ELSE CHOOSE d \in hit : TRUE

\* The first item of the file whose symbol_name is the name, 0 for None.
FindItem(file, name) ==
    LET its == db.files[file]
        hit == {i \in 1..Len(its) : db.name[its[i]] = name}
    IN IF hit = {} THEN 0
       ELSE its[CHOOSE i \in hit : \A j \in hit : i <= j]

(***************************************************************************)
(* ContextBuilder::collect.                                                *)
(***************************************************************************)
pure_vars == <<change_case, name_in, name_out, lit_in, lit_out>>

plugin_vars == <<cur_item, calls>>

\* CollectMode::All: every item that is no Mod is selected.
CollectAll ==
    /\ phase = "start" /\ cmode = "All"
    /\ codegen_items' = codegen_items \o AllItems
    /\ phase' = "collected"
    /\ UNCHANGED <<db, mode, cmode, touches, touch_pos, extra_def_ids, input_items, stack,
                   set, scan, visits, map, location_map, warnings>>
    /\ UNCHANGED plugin_vars /\ UNCHANGED pure_vars

\* One item name of a touch whose file the database knows (the filter_map).
ResolveTouch ==
    /\ phase = "start" /\ cmode = "OnlyUsed" /\ touch_pos <= Len(touches)
    /\ touches[touch_pos].file \in FileIds
    /\ LET def_id == FindItem(touches[touch_pos].file, touches[touch_pos].name)
       IN IF def_id # 0
          THEN /\ extra_def_ids' = Append(extra_def_ids, def_id)
               /\ UNCHANGED warnings
          ELSE /\ warnings' = warnings + 1
               /\ UNCHANGED extra_def_ids
    /\ touch_pos' = touch_pos + 1
    /\ UNCHANGED <<db, mode, cmode, touches, input_items, codegen_items, phase, stack,
                   set, scan, visits, map, location_map>>
    /\ UNCHANGED plugin_vars /\ UNCHANGED pure_vars

\* file_ids_map().get(&path).unwrap() on a path the database does not know.
ResolveTouchPanic ==
    /\ phase = "start" /\ cmode = "OnlyUsed" /\ touch_pos <= Len(touches)
    /\ touches[touch_pos].file \notin FileIds
    /\ phase' = "panic"
    /\ UNCHANGED <<db, mode, cmode, touches, touch_pos, extra_def_ids, input_items,
                   codegen_items, stack, set, scan, visits, map, location_map,
                   warnings>>
    /\ UNCHANGED plugin_vars /\ UNCHANGED pure_vars

\* input_items.extend(extra_def_ids); collect_items(&input_items) is entered.
CollectItemsBegin ==
    /\ phase = "start" /\ cmode = "OnlyUsed" /\ touch_pos > Len(touches)
    /\ input_items' = input_items \o extra_def_ids
    /\ stack' = input_items'
    /\ set' = {}
    /\ phase' = "roots"
    /\ UNCHANGED <<db, mode, cmode, touches, touch_pos, extra_def_ids, codegen_items, scan,
                   visits, map, location_map, warnings>>
    /\ UNCHANGED plugin_vars /\ UNCHANGED pure_vars

\* One call of the inner fn collect of collect_items.
CollectCall ==
    /\ phase \in {"roots", "nodes"} /\ stack # <<>>
    /\ LET def_id == Head(stack)
       IN IF InSet(def_id, set)
          THEN /\ stack' = Tail(stack)
               /\ UNCHANGED <<set, visits>>
          ELSE /\ set' = Insert(def_id, set)
               /\ visits' = [visits EXCEPT ![def_id] =
                                 IF @ < VisitCap THEN @ + 1 ELSE @]
               /\ stack' = CollectCalls(def_id) \o Tail(stack)
    /\ UNCHANGED <<db, mode, cmode, touches, touch_pos, extra_def_ids, input_items,
                   codegen_items, phase, scan, map, location_map, warnings>>
    /\ UNCHANGED plugin_vars /\ UNCHANGED pure_vars

\* The roots are done: the loop over db.nodes() starts.
NodesLoopBegin ==
    /\ phase = "roots" /\ stack = <<>>
    /\ scan' = ConstNodes
    /\ phase' = "nodes"
    /\ UNCHANGED <<db, mode, cmode, touches, touch_pos, extra_def_ids, input_items,
                   codegen_items, stack, set, visits, map, location_map, warnings>>
    /\ UNCHANGED plugin_vars /\ UNCHANGED pure_vars

\* The loop over db.nodes() reaches its next Const.
NodesLoopNext ==
    /\ phase = "nodes" /\ stack = <<>> /\ scan # <<>>
    /\ stack' = <<Head(scan)>>
    /\ scan' = Tail(scan)
    /\ UNCHANGED <<db, mode, cmode, touches, touch_pos, extra_def_ids, input_items,
                   codegen_items, phase, set, visits, map, location_map, warnings>>
    /\ UNCHANGED plugin_vars /\ UNCHANGED pure_vars

\* collect_items returns; codegen_items.extend(def_ids.iter()).
CollectItemsReturn ==
    /\ phase = "nodes" /\ stack = <<>> /\ scan = <<>>
    /\ codegen_items' = codegen_items \o HashOrder(set)
    /\ phase' = "collected"
    /\ UNCHANGED <<db, mode, cmode, touches, touch_pos, extra_def_ids, input_items, stack,
                   set, scan, visits, map, location_map, warnings>>
    /\ UNCHANGED plugin_vars /\ UNCHANGED pure_vars

\* Mode::Workspace: workspace_collect_def_ids(&codegen_items) is entered.
WorkspaceBegin ==
    /\ phase = "collected" /\ mode = "Workspace"
    /\ stack' = codegen_items
    /\ map' = EmptyMap
    /\ phase' = "workspace"
    /\ UNCHANGED <<db, mode, cmode, touches, touch_pos, extra_def_ids, input_items,
                   codegen_items, set, scan, visits, location_map, warnings>>
    /\ UNCHANGED plugin_vars /\ UNCHANGED pure_vars

\* One call of the inner fn collect of workspace_collect_def_ids.
WorkspaceCall ==
    /\ phase = "workspace" /\ stack # <<>>
    /\ LET def_id == Head(stack)
       IN IF Located(def_id, map)
          THEN /\ stack' = Tail(stack)
               /\ UNCHANGED map
          ELSE /\ map' = Locate(def_id, map)
               /\ stack' = CollectCalls(def_id) \o Tail(stack)
    /\ UNCHANGED <<db, mode, cmode, touches, touch_pos, extra_def_ids, input_items,
                   codegen_items, phase, set, scan, visits, location_map, warnings>>
    /\ UNCHANGED plugin_vars /\ UNCHANGED pure_vars

\* workspace_collect_def_ids returns; info.location_map = location_map.
WorkspaceReturn ==
    /\ phase = "workspace" /\ stack = <<>>
    /\ location_map' = map
    /\ phase' = "done"
    /\ UNCHANGED <<db, mode, cmode, touches, touch_pos, extra_def_ids, input_items,
                   codegen_items, stack, set, scan, visits, map, warnings>>
    /\ UNCHANGED plugin_vars /\ UNCHANGED pure_vars

\* Mode::SingleFile: collect returns without the placement pass.
CollectReturn ==
    /\ phase = "collected" /\ mode = "SingleFile"
    /\ phase' = "done"
    /\ UNCHANGED <<db, mode, cmode, touches, touch_pos, extra_def_ids, input_items,
                   codegen_items, stack, set, scan, visits, map, location_map,
                   warnings>>
    /\ UNCHANGED plugin_vars /\ UNCHANGED pure_vars

(***************************************************************************)
(* ContextBuilder::build and Context::exec_plugin.                         *)
(***************************************************************************)
\* Mutant: the loop starts at the second item.
PluginItems_SkipFirst == IF codegen_items = <<>> THEN <<>> ELSE Tail(codegen_items)

\* exec_plugin, line 739: the items the loop runs over.
PluginItems == codegen_items

\* build: the builder is consumed; exec_plugin starts at the first item.
Build ==
    /\ phase = "done"
    /\ phase' = "plugin"
    /\ stack' = PluginItems
    /\ UNCHANGED <<db, mode, cmode, touches, touch_pos, extra_def_ids, input_items,
                   codegen_items, set, scan, visits, map, location_map, warnings>>
    /\ UNCHANGED plugin_vars /\ UNCHANGED pure_vars

\* CUR_ITEM.set(def_id, ..) and, for an item node, the call of on_item.
ExecPluginEnter ==
    /\ phase = "plugin" /\ stack # <<>> /\ cur_item = 0
    /\ cur_item' = Head(stack)
    /\ calls' = IF IsItem(Head(stack))
                THEN Append(calls, [ev |-> "on_item", did |-> Head(stack),
                                    cur |-> cur_item'])
                ELSE calls
    /\ UNCHANGED <<db, mode, cmode, touches, touch_pos, extra_def_ids, input_items,
                   codegen_items, phase, stack, set, scan, visits, map,
                   location_map, warnings>>
    /\ UNCHANGED pure_vars

\* The closure returns: CUR_ITEM is unbound and the loop moves on.
ExecPluginLeave ==
    /\ phase = "plugin" /\ stack # <<>> /\ cur_item # 0
    /\ cur_item' = 0
    /\ stack' = Tail(stack)
    /\ UNCHANGED <<db, mode, cmode, touches, touch_pos, extra_def_ids, input_items,
                   codegen_items, phase, set, scan, visits, map, location_map,
                   warnings, calls>>
    /\ UNCHANGED pure_vars

\* p.on_emit(self)
ExecPluginEmit ==
    /\ phase = "plugin" /\ stack = <<>>
    /\ calls' = Append(calls, [ev |-> "on_emit", did |-> 0, cur |-> cur_item])
    /\ phase' = "emitted"
    /\ UNCHANGED <<db, mode, cmode, touches, touch_pos, extra_def_ids, input_items,
                   codegen_items, stack, set, scan, visits, map, location_map,
                   warnings, cur_item>>
    /\ UNCHANGED pure_vars

Init ==
    /\ db \in Databases
    /\ mode \in {"Workspace", "SingleFile"}
    /\ cmode \in {"All", "OnlyUsed"}
    /\ touches \in (IF cmode = "All" THEN {<<>>}
                    ELSE SeqsUpTo(TouchEntries, MaxTouchNames))
    /\ input_items \in SeqsUpTo(RootIds, MaxRoots)
    /\ touch_pos = 1
    /\ extra_def_ids = <<>>
    /\ codegen_items = <<>>
    /\ phase = "start"
    /\ stack = <<>>
    /\ set = {}
    /\ scan = <<>>
    /\ visits = [d \in DefIds |-> 0]
    /\ map = EmptyMap
    /\ location_map = EmptyMap
    /\ warnings = 0
    /\ cur_item = 0
    /\ calls = <<>>
    /\ change_case = FALSE
    /\ name_in = <<>>
    /\ name_out = <<>>
    /\ lit_in = <<>>
    /\ lit_out = <<>>

Next ==
    \/ CollectAll
    \/ ResolveTouch
    \/ ResolveTouchPanic
    \/ CollectItemsBegin
    \/ CollectCall
    \/ NodesLoopBegin
    \/ NodesLoopNext
    \/ CollectItemsReturn
    \/ WorkspaceBegin
    \/ WorkspaceCall
    \/ WorkspaceReturn
    \/ CollectReturn
    \/ Build
    \/ ExecPluginEnter
    \/ ExecPluginLeave
    \/ ExecPluginEmit

Spec == Init /\ [][Next]_vars

(***************************************************************************)
(* collect_items(input) on its own: one call, run to its return.  The      *)
(* program runs it on one thread that is never held up, hence the weak     *)
(* fairness.                                                               *)
(***************************************************************************)
ItemsDatabases ==
    {MkDb(a, t, TyPrim("I32"), FALSE, FALSE) : a \in SlotA, t \in SlotT}

ItemsInit ==
    /\ db \in ItemsDatabases
    /\ mode = "SingleFile"
    /\ cmode = "OnlyUsed"
    /\ touches = <<>>
    /\ touch_pos = 1
    /\ input_items \in SeqsUpTo({1, 3, 5}, MaxInput)
    /\ extra_def_ids = <<>>
    /\ codegen_items = <<>>
    /\ phase = "roots"
    /\ stack = input_items
    /\ set = {}
    /\ scan = <<>>
    /\ visits = [d \in DefIds |-> 0]
    /\ map = EmptyMap
    /\ location_map = EmptyMap
    /\ warnings = 0
    /\ cur_item = 0
    /\ calls = <<>>
    /\ change_case = FALSE
    /\ name_in = <<>>
    /\ name_out = <<>>
    /\ lit_in = <<>>
    /\ lit_out = <<>>

ItemsNext ==
    \/ CollectCall
    \/ NodesLoopBegin
    \/ NodesLoopNext
    \/ CollectItemsReturn

ItemsSpec == ItemsInit /\ [][ItemsNext]_vars /\ WF_vars(ItemsNext)

(***************************************************************************)
(* The reference graph of the database, as sets.                           *)
(***************************************************************************)
RECURSIVE NamedIn(_)
NamedIn(ty) ==
    IF ty.t = "Path" THEN {ty.did}
    ELSE UNION {NamedIn(ty.args[i]) : i \in 1..Len(ty.args)}

TypesOf(d) ==
    CASE db.kind[d] = "Message" -> Range(db.fields[d])
      [] db.kind[d] = "Enum" -> UNION {Range(v) : v \in Range(db.variants[d])}
      [] db.kind[d] = "Service" ->
           UNION {Range(m.args) \cup {m.ret} : m \in Range(db.methods[d])}
      [] db.kind[d] \in {"NewType", "Const"} -> {db.ty[d]}
      [] OTHER -> {}

PointsAt(d) ==
    Range(db.related_nodes[d])
      \cup UNION {NamedIn(ty) : ty \in TypesOf(d)}
      \cup (IF db.kind[d] = "Service" THEN Range(db.extend[d]) ELSE {})

Children(d) == IF IsMod(d) THEN Range(db.items[d]) ELSE {}

RECURSIVE ReachFrom(_)
ReachFrom(S) ==
    LET n == S \cup UNION {PointsAt(d) \cup Children(d) : d \in S}
    IN IF n = S THEN S ELSE ReachFrom(n)

Selected(S) == {d \in ReachFrom(S) : ~IsMod(d)}

Consts == {d \in DefIds : db.kind[d] = "Const"}

AfterItems ==
    cmode = "OnlyUsed" /\ phase \in {"collected", "workspace", "done", "plugin", "emitted"}

AfterCollect == phase \in {"done", "plugin", "emitted"}

(***************************************************************************)
(* C1 Closure: the set collect_items returns contains, for each of its     *)
(* definitions D, every non-module definition D points at through a        *)
(* related node, a named reference inside one of its types, or a service   *)
(* extension.                                                              *)
(***************************************************************************)
C1_Closure ==
    AfterItems => \A d \in set : \A e \in PointsAt(d) : ~IsMod(e) => e \in set

\* A service and a cyclic pair of definitions were collected.
C1_Witness ==
    /\ AfterItems /\ 5 \in set /\ 2 \in set /\ 7 \in set
    /\ 2 \in PointsAt(7) /\ 7 \in PointsAt(2) /\ 6 \in PointsAt(5)

(***************************************************************************)
(* C2 Completeness: after collect, in both collect modes and for every     *)
(* root set, every Const item of the database is selected.                 *)
(***************************************************************************)
C2_Completeness ==
    AfterCollect => \A d \in DefIds : db.kind[d] = "Const" => d \in Range(codegen_items)

\* OnlyUsed with no root at all: the constants are selected all the same.
C2_Witness ==
    /\ AfterCollect /\ cmode = "OnlyUsed" /\ input_items = <<>>
    /\ {8, 9} \subseteq Range(codegen_items)

(***************************************************************************)
(* C3 Exclusion: no Mod is ever in the collected set or among the selected *)
(* definitions, in either collect mode; after collect, each direct child   *)
(* of a Mod root that is no Mod itself is selected.                        *)
(***************************************************************************)
C3_Exclusion ==
    /\ \A d \in set \cup Range(codegen_items) : ~IsMod(d)
    /\ AfterCollect =>
         \A r \in Range(input_items) : IsMod(r) =>
            \A c \in Range(db.items[r]) : ~IsMod(c) => c \in Range(codegen_items)

\* Mod m was a root of an OnlyUsed collect and its child A is selected.
C3_Witness ==
    /\ AfterCollect /\ cmode = "OnlyUsed" /\ 1 \in Range(input_items)
    /\ 2 \in Range(codegen_items)

(***************************************************************************)
(* C4 Cycle termination, as the claim states it: the traversal terminates  *)
(* and every definition is expanded at most once during one call.          *)
(***************************************************************************)
C4_ExpandedAtMostOnce == \A d \in DefIds : visits[d] <= 1

(***************************************************************************)
(* C4, amended: the traversal of collect_items terminates, also on a       *)
(* cyclic reference graph, and every definition that is no Mod is expanded *)
(* at most once during one call.                                           *)
(***************************************************************************)
C4_CycleTermination ==
    /\ [](\A d \in DefIds : ~IsMod(d) => visits[d] <= 1)
    /\ (phase = "roots") ~> (phase = "collected")

\* A message on a two-definition cycle was traversed, with a Mod expanded twice.
C4_Witness ==
    /\ phase = "collected"
    /\ 2 \in PointsAt(7) /\ 7 \in PointsAt(2) /\ visits[2] = 1 /\ visits[7] = 1
    /\ visits[3] = 2

(***************************************************************************)
(* C5 Location partition: in workspace mode every non-module definition    *)
(* workspace_collect_def_ids reaches gets one Location, which the pass     *)
(* never changes afterwards; it is Fixed(package of its file) exactly when *)
(* the file is a declared input file and Dynamic otherwise, and crate_name *)
(* of a Dynamic location is the one shared unit name.                      *)
(***************************************************************************)
C5_Located(m) ==
    \A d \in DOMAIN m :
       /\ ~IsMod(d)
       /\ m[d].tag \in {"Fixed", "Dynamic"}
       /\ m[d].tag = "Fixed" <=> db.file_id[d] \in db.input_files
       /\ m[d].tag = "Fixed" => m[d].path = db.package[db.file_id[d]]
       /\ m[d].tag = "Dynamic" => CrateName(m[d]) = "common"

C5_LocationPartition ==
    /\ [](C5_Located(map) /\ C5_Located(location_map))
    /\ [](mode = "Workspace" /\ AfterCollect =>
            /\ DOMAIN location_map = Selected(Range(codegen_items))
            /\ location_map = map)
    /\ [][phase = "workspace" =>
            \A d \in DOMAIN map : d \in DOMAIN map' /\ map'[d] = map[d]]_vars

\* The pass placed an input-file definition and a dependency's definition.
C5_Witness ==
    /\ mode = "Workspace" /\ AfterCollect
    /\ 5 \in DOMAIN location_map /\ location_map[5].tag = "Fixed"
    /\ 7 \in DOMAIN location_map /\ location_map[7].tag = "Dynamic"
    /\ 8 \in DOMAIN location_map /\ location_map[8].tag = "Dynamic"

(***************************************************************************)
(* C6 Determinism: the set collect_items returns and the map               *)
(* workspace_collect_def_ids returns are functions of the database's       *)
(* content and of the set of roots alone, whatever the order of the roots, *)
(* of the hash containers and of the Vecs of the database.                 *)
(***************************************************************************)
C6_Determinism ==
    /\ AfterItems => set = Selected(Range(input_items) \cup Consts)
    /\ mode = "Workspace" /\ AfterCollect =>
         location_map =
            [d \in Selected(Range(codegen_items)) |->
                IF db.file_id[d] \in db.input_files
                THEN [tag |-> "Fixed", path |-> db.package[db.file_id[d]]]
                ELSE [tag |-> "Dynamic", path |-> <<>>]]

\* Reversed iteration orders, two roots, and both results are in.
C6_Witness ==
    /\ mode = "Workspace" /\ AfterCollect /\ cmode = "OnlyUsed"
    /\ db.rev /\ db.items[1] = <<3, 2>>
    /\ Len(input_items) = 2 /\ input_items[1] > input_items[2]
    /\ Cardinality(DOMAIN location_map) >= 6

(***************************************************************************)
(* C7 Plugin run order: exec_plugin calls on_item exactly once for every   *)
(* selected definition, each time with that definition bound as CUR_ITEM,  *)
(* and calls on_emit exactly once, after the last on_item.                 *)
(***************************************************************************)
OnItemCalls(d) == {i \in 1..Len(calls) : calls[i].ev = "on_item" /\ calls[i].did = d}

C7_PluginRunOrder ==
    /\ \A i \in 1..Len(calls) :
          /\ calls[i].ev = "on_item" =>
                calls[i].cur = calls[i].did /\ calls[i].did \in Range(codegen_items)
          /\ calls[i].ev = "on_emit" => i = Len(calls) /\ phase = "emitted"
    /\ \A d \in DefIds : Cardinality(OnItemCalls(d)) <= 1
    /\ phase = "emitted" =>
          /\ \A d \in Range(codegen_items) : Cardinality(OnItemCalls(d)) = 1
          /\ calls # <<>> /\ calls[Len(calls)].ev = "on_emit"

\* A run over several selected definitions has emitted.
C7_Witness ==
    /\ phase = "emitted" /\ Len(calls) >= 4
    /\ calls[Len(calls)].ev = "on_emit" /\ calls[1].ev = "on_item"

(***************************************************************************)
(* C8 Soft touch resolution: a touch name that matches no item of its      *)
(* file is skipped with a warning and aborts nothing; the other names are  *)
(* resolved and become roots, so the collected set is the one of the touch *)
(* list with the unmatched names removed.                                  *)
(***************************************************************************)
Matches(t) == \E d \in Range(db.files[t.file]) : db.name[d] = t.name

ResolvedId(t) == CHOOSE d \in Range(db.files[t.file]) : db.name[d] = t.name

FilesKnown == \A i \in 1..Len(touches) : touches[i].file \in FileIds

MatchedTouches == SelectSeq(touches, Matches)

MatchedIds == [i \in 1..Len(MatchedTouches) |-> ResolvedId(MatchedTouches[i])]

Tags(pilota_name, enum_mode) == [pilota_name |-> pilota_name, enum_mode |-> enum_mode]

NoTags == Tags("", "none")

\* symbol::IdentName: one convention per method.
struct_ident(name) == "struct_ident(" \o name \o ")"

enum_ident(name) == "enum_ident(" \o name \o ")"

trait_ident(name) == "trait_ident(" \o name \o ")"

newtype_ident(name) == "newtype_ident(" \o name \o ")"

const_ident(name) == "const_ident(" \o name \o ")"

mod_ident(name) == "mod_ident(" \o name \o ")"

variant_ident(name) == "variant_ident(" \o name \o ")"

shouty_snake_case(name) == "shouty_snake_case(" \o name \o ")"

field_ident(name) == "field_ident(" \o name \o ")"

fn_ident(name) == "fn_ident(" \o name \o ")"

\* lines 686-692: the parent's EnumMode, EnumMode::Enum when it has none.
ParentEnumMode(node) ==
    IF node.parent_tags.enum_mode = "none" THEN "Enum" ELSE node.parent_tags.enum_mode

\* lines 674-703: the transform of the node's kind.
ChangeCase(node) ==
    CASE node.kind = "Message" -> struct_ident(node.name)
      [] node.kind = "Enum" -> enum_ident(node.name)
      [] node.kind = "Service" -> trait_ident(node.name)
      [] node.kind = "NewType" -> newtype_ident(node.name)
      [] node.kind = "Const" -> const_ident(node.name)
      [] node.kind = "Mod" -> mod_ident(node.name)
      [] node.kind = "Variant" ->
           IF ParentEnumMode(node) = "NewType"
           THEN shouty_snake_case(node.name)
           ELSE variant_ident(node.name)
      [] node.kind = "Field" -> field_ident(node.name)
      [] node.kind = "Method" -> fn_ident(node.name)
      [] node.kind = "Arg" -> field_ident(node.name)

\* Mutant: the override only wins when the case transform is on.
RustName_OverrideNeedsCase(node, cc) ==
    IF ~cc THEN node.name
    ELSE IF node.tags.pilota_name # "" THEN node.tags.pilota_name
    ELSE ChangeCase(node)

RustName(node, cc) ==
    IF node.tags.pilota_name # "" THEN node.tags.pilota_name
    ELSE IF ~cc THEN node.name
    ELSE ChangeCase(node)

NodeKinds == ItemKinds \cup {"Variant", "Field", "Method", "Arg"}

NameNodes ==
    {[kind |-> k, name |-> n, tags |-> Tags(o, m), parent_tags |-> Tags("", pm)] :
        k \in NodeKinds, n \in {"foo_bar", "FooBar"}, o \in {"", "Renamed"},
        m \in {"none", "NewType"}, pm \in {"none", "Enum", "NewType"}}

NameInputs ==
    {n \in NameNodes :
        /\ n.kind # "Variant" => n.parent_tags = NoTags
        /\ n.kind # "Enum" => n.tags.enum_mode = "none"}

RustNameCall ==
    /\ phase = "name"
    /\ name_out' = RustName(name_in, change_case)
    /\ phase' = "named"
    /\ UNCHANGED <<db, mode, cmode, touches, touch_pos, extra_def_ids, input_items,
                   codegen_items, stack, set, scan, visits, map, location_map,
                   warnings, cur_item, calls, change_case, name_in, lit_in, lit_out>>

NameInit ==
    /\ db = MkDb(TyPrim("I32"), TyPrim("I32"), TyPrim("I32"), FALSE, FALSE)
    /\ mode = "SingleFile"
    /\ cmode = "All"
    /\ touches = <<>>
    /\ touch_pos = 1
    /\ input_items = <<>>
    /\ extra_def_ids = <<>>
    /\ codegen_items = <<>>
    /\ phase = "name"
    /\ stack = <<>>
    /\ set = {}
    /\ scan = <<>>
    /\ visits = [d \in DefIds |-> 0]
    /\ map = EmptyMap
    /\ location_map = EmptyMap
    /\ warnings = 0
    /\ cur_item = 0
    /\ calls = <<>>
    /\ change_case \in BOOLEAN
    /\ name_in \in NameInputs
    /\ name_out = ""
    /\ lit_in = <<>>
    /\ lit_out = <<>>

NameNext == RustNameCall

NameSpec == NameInit /\ [][NameNext]_vars

(***************************************************************************)
(* C9 Naming priority: rust_name returns the name override whenever the    *)
(* node has one; without one it returns the source name unchanged when     *)
(* case-normalization is off and the transform of the node's kind when it  *)
(* is on, a variant taking constant-style casing exactly when its parent   *)
(* enum's mode is the integer newtype and variant casing otherwise.        *)
(***************************************************************************)
KindTransform(kind, name) ==
    CASE kind = "Message" -> struct_ident(name)
      [] kind = "Enum" -> enum_ident(name)
      [] kind = "Service" -> trait_ident(name)
      [] kind = "NewType" -> newtype_ident(name)
      [] kind = "Const" -> const_ident(name)
      [] kind = "Mod" -> mod_ident(name)
      [] kind \in {"Field", "Arg"} -> field_ident(name)
      [] kind = "Method" -> fn_ident(name)

C9_NamingPriority ==
    phase = "named" =>
       LET n == name_in
           override == n.tags.pilota_name
       IN /\ override # "" => name_out = override
          /\ override = "" /\ ~change_case => name_out = n.name
          /\ override = "" /\ change_case /\ n.kind # "Variant" =>
                name_out = KindTransform(n.kind, n.name)
          /\ override = "" /\ change_case /\ n.kind = "Variant" =>
                /\ n.parent_tags.enum_mode = "NewType" =>
                      name_out = shouty_snake_case(n.name)
                /\ n.parent_tags.enum_mode # "NewType" =>
                      name_out = variant_ident(n.name)

\* A variant of an enum without a mode annotation was named with the case
\* transform on.
C9_Witness ==
    /\ phase = "named" /\ change_case /\ name_in.kind = "Variant"
    /\ name_in.tags.pilota_name = "" /\ name_in.parent_tags.enum_mode = "none"
    /\ name_out = "variant_ident(foo_bar)"

(***************************************************************************)
(* The literal evaluator: Context::lit_into_ty, lit_as_rvalue and def_lit. *)
(* A result is (ok, s, c): ok is FALSE when the call panics, s is the      *)
(* rendered expression with the white space of the format strings reduced  *)
(* to single blanks, c is the "const?" flag.                               *)
(***************************************************************************)
\* rir::Literal.  A Map keeps its pairs as k1, v1, k2, v2, ... in els.
LitString(str) == [k |-> "String", s |-> str, i |-> 0, els |-> <<>>]

LitInt(n) == [k |-> "Int", s |-> "", i |-> n, els |-> <<>>]

LitFloat(str) == [k |-> "Float", s |-> str, i |-> 0, els |-> <<>>]

LitBool(str) == [k |-> "Bool", s |-> str, i |-> 0, els |-> <<>>]

LitPath(did) == [k |-> "Path", s |-> "", i |-> did, els |-> <<>>]

LitList(els) == [k |-> "List", s |-> "", i |-> 0, els |-> els]

LitMap(kvs) == [k |-> "Map", s |-> "", i |-> 0, els |-> kvs]

\* ty::CodegenTy
CgPrim(t) == [t |-> t, did |-> 0, adt |-> "", args |-> <<>>, size |-> 0]

CgAdt(did, kind, args) == [t |-> "Adt", did |-> did, adt |-> kind, args |-> args, size |-> 0]

CgVec(a) == [t |-> "Vec", did |-> 0, adt |-> "", args |-> <<a>>, size |-> 0]

CgArray(a, n) == [t |-> "Array", did |-> 0, adt |-> "", args |-> <<a>>, size |-> n]

CgMap(kt, vt) == [t |-> "Map", did |-> 0, adt |-> "", args |-> <<kt, vt>>, size |-> 0]

CgStaticRef(a) == [t |-> "StaticRef", did |-> 0, adt |-> "", args |-> <<a>>, size |-> 0]

CgLazyStaticRef(a) == [t |-> "LazyStaticRef", did |-> 0, adt |-> "", args |-> <<a>>, size |-> 0]

(***************************************************************************)
(* The items the evaluator looks up:                                       *)
(*   1 Message P {a: i32, q: optional Q}    2 Message Q {x: optional i16,  *)
(*   y: &'static str}    3 Message R {}    4 Enum E {A = 1, B = 2}         *)
(*   5 NewType T(i32)    6 Const C: &'static str                           *)
(*   7 Message M {m: map<&'static str, i32>}                               *)
(***************************************************************************)
LitField(name, did, ty, optional) ==
    [name |-> name, did |-> did, ty |-> ty, optional |-> optional]

LitItemKind(did) ==
    CASE did \in {1, 2, 3, 7} -> "Message"
      [] did = 4 -> "Enum"
      [] did = 5 -> "NewType"
      [] did = 6 -> "Const"
      [] did \in {11, 12, 13, 14, 17} -> "Field"
      [] did \in {15, 16} -> "Variant"

LitItemName(did) ==
    CASE did = 1 -> "P" [] did = 2 -> "Q" [] did = 3 -> "R" [] did = 4 -> "E"
      [] did = 5 -> "T" [] did = 6 -> "C" [] did = 11 -> "a" [] did = 12 -> "q"
      [] did = 13 -> "x" [] did = 14 -> "y" [] did = 15 -> "A" [] did = 16 -> "B"
      [] did = 7 -> "M" [] did = 17 -> "m"

\* Message.fields, each with codegen_item_ty of its type.
MessageFields(did) ==
    CASE did = 1 -> <<LitField("a", 11, CgPrim("I32"), FALSE),
                      LitField("q", 12, CgAdt(2, "Struct", <<>>), TRUE)>>
      [] did = 2 -> <<LitField("x", 13, CgPrim("I16"), TRUE),
                      LitField("y", 14, CgPrim("Str"), FALSE)>>
      [] did = 3 -> <<>>
      [] did = 7 -> <<LitField("m", 17, CgMap(CgPrim("Str"), CgPrim("I32")), FALSE)>>

\* Enum.variants
EnumVariants(did) ==
    CASE did = 4 -> <<[name |-> "A", did |-> 15, discr |-> 1],
                      [name |-> "B", did |-> 16, discr |-> 2]>>

\* Context::codegen_ty of the definition a path literal names.
CodegenTyOf(did) == CASE did = 6 -> CgPrim("Str")

LitNode(did) ==
    [kind |-> LitItemKind(did), name |-> LitItemName(did), tags |-> NoTags,
     parent_tags |-> NoTags]

\* Context::cur_related_item_path: the reference to a definition from the
\* item being rendered.
CurRelatedItemPath(did) == "path(" \o LitItemName(did) \o ")"

\* f64::from_str followed by Display.
FloatDisplay(str) ==
    CASE str = "1.5" -> "1.5"
      [] str = "2.0" -> "2"
      [] str = "1e2" -> "100"

\* heck::ToShoutySnakeCase
ToShoutySnakeCase(name) ==
    CASE name = "INNER_MAP" -> "INNER_MAP"
      [] name = "my_const" -> "MY_CONST"
      [] OTHER -> name

\* Display of a CodegenTy.
RECURSIVE TyText(_)
TyText(ty) ==
    CASE ty.t = "Adt" -> "path(" \o LitItemName(ty.did) \o ")"
      [] ty.t = "Vec" -> "Vec<" \o TyText(ty.args[1]) \o ">"
      [] ty.t = "Array" -> "[" \o TyText(ty.args[1]) \o "; " \o ToString(ty.size) \o "]"
      [] ty.t = "Map" -> "HashMap<" \o TyText(ty.args[1]) \o ", " \o TyText(ty.args[2]) \o ">"
      [] ty.t = "StaticRef" -> "&'static " \o TyText(ty.args[1])
      [] ty.t = "LazyStaticRef" -> TyText(ty.args[1])
      [] OTHER -> ty.t

\* CodegenTy::should_lazy_static
ShouldLazyStatic(ty) ==
    \/ ty.t \in {"String", "LazyStaticRef", "StaticRef", "Vec", "Map"}
    \/ ty.t = "Adt" /\ ty.adt = "Struct"

Panic == [ok |-> FALSE, s |-> "", c |-> FALSE]

Ok(str, const) == [ok |-> TRUE, s |-> str, c |-> const]

AllOk(rs) == \A j \in 1..Len(rs) : rs[j].ok

\* lines 549, 617: iter().all(|(_, is_const)| *is_const)
AllConst(rs) == \A j \in 1..Len(rs) : rs[j].c

Texts(rs) == [j \in 1..Len(rs) |-> rs[j].s]

\* ident_into_ty, lines 439-459.
IdentIntoTy(did, ident_ty, target) ==
    IF ident_ty = target THEN Ok(CurRelatedItemPath(did), TRUE)
    ELSE IF ident_ty.t = "Str" /\ target.t = "FastStr"
    THEN Ok("::pilota::FastStr::from_static_str(" \o CurRelatedItemPath(did) \o ")", TRUE)
    ELSE Panic

\* lines 590-600: the value of the first pair whose key is the field's name;
\* a key that is no string, met before that pair, panics.
RECURSIVE FieldLookup(_, _)
FieldLookup(kvs, name) ==
    IF kvs = <<>> THEN [ok |-> TRUE, found |-> FALSE, v |-> LitInt(0)]
    ELSE IF kvs[1].k # "String" THEN [ok |-> FALSE, found |-> FALSE, v |-> LitInt(0)]
    ELSE IF kvs[1].s = name THEN [ok |-> TRUE, found |-> TRUE, v |-> kvs[2]]
    ELSE FieldLookup(SubSeq(kvs, 3, Len(kvs)), name)

\* Mutant: a field the literal leaves out does not touch the const flag.
MissingField_Const(name) == Ok(name \o ": Default::default()", TRUE)

\* line 613: a declared field with no key of its name.
MissingField(name) == Ok(name \o ": Default::default()", FALSE)

\* lines 605-611: a supplied field, from the evaluation of its value.
SuppliedField(name, optional, r) ==
    IF ~r.ok THEN Panic
    ELSE Ok(name \o ": " \o (IF optional THEN "Some(" \o r.s \o ")" ELSE r.s), r.c)

\* Mutant: the FastStr of a string literal is classified like a String.
FastStrLit_NotConst(str) ==
    Ok("::pilota::FastStr::from_static_str(\"" \o str \o "\")", FALSE)

\* lines 476-479: a string literal against FastStr.
FastStrLit(str) == Ok("::pilota::FastStr::from_static_str(\"" \o str \o "\")", TRUE)

RECURSIVE LitIntoTy(_, _, _)
RECURSIVE LitAsRvalue(_, _, _)
RECURSIVE DefLit(_, _, _, _)

\* lines 406-427: the closure mk_map.
MkMap(kvs, k_ty, v_ty, cc) ==
    LET n == Len(kvs) \div 2
        ks == [j \in 1..n |-> LitIntoTy(kvs[2 * j - 1], k_ty, cc)]
        vs == [j \in 1..n |-> LitIntoTy(kvs[2 * j], v_ty, cc)]
        ins == [j \in 1..n |-> "map.insert(" \o ks[j].s \o ", " \o vs[j].s \o ");"]
    IN IF ~(AllOk(ks) /\ AllOk(vs)) THEN Panic
       ELSE Ok("{ let mut map = ::std::collections::HashMap::with_capacity("
                  \o ToString(n) \o "); " \o JoinWith(ins, "") \o " map }", FALSE)

\* lines 401-437
LitAsRvalue(lit, ty, cc) ==
    IF lit.k = "Map" /\ ty.t = "LazyStaticRef"
    THEN IF ty.args[1].t = "Map"
         THEN MkMap(lit.els, ty.args[1].args[1], ty.args[1].args[2], cc)
         ELSE Panic
    ELSE IF lit.k = "Map" /\ ty.t = "Map"
    THEN MkMap(lit.els, ty.args[1], ty.args[2], cc)
    ELSE LitIntoTy(lit, ty, cc)

\* Mutant: the declaration form follows the evaluator's classification.
DefLit_ByClassification(name, lit, ty, cc) ==
    LET ident == ToShoutySnakeCase(name)
        sized == IF lit.k = "List" /\ ty.t = "Array"
                 THEN [ty EXCEPT !.size = Len(lit.els)] ELSE ty
        r == LitAsRvalue(lit, sized, cc)
    IN IF ~r.ok THEN [ok |-> FALSE, s |-> "", ty |-> sized, lazy |-> FALSE]
       ELSE [ok |-> TRUE,
             s |-> IF ~r.c
                   THEN "::pilota::lazy_static::lazy_static! { pub static ref "
                           \o ident \o ": " \o TyText(sized) \o " = " \o r.s \o "; }"
                   ELSE "pub const " \o ident \o ": " \o TyText(sized) \o " = "
                           \o r.s \o ";",
             ty |-> sized, lazy |-> ~r.c]

\* lines 636-658; the result carries the type with the size def_lit set.
DefLit(name, lit, ty, cc) ==
    LET should_lazy_static == ShouldLazyStatic(ty)
        ident == ToShoutySnakeCase(name)
        sized == IF lit.k = "List" /\ ty.t = "Array"
                 THEN [ty EXCEPT !.size = Len(lit.els)] ELSE ty
        r == IF should_lazy_static THEN LitAsRvalue(lit, sized, cc)
             ELSE LitIntoTy(lit, sized, cc)
    IN IF ~r.ok THEN [ok |-> FALSE, s |-> "", ty |-> sized, lazy |-> should_lazy_static]
       ELSE [ok |-> TRUE,
             s |-> IF should_lazy_static
                   THEN "::pilota::lazy_static::lazy_static! { pub static ref "
                           \o ident \o ": " \o TyText(sized) \o " = " \o r.s \o "; }"
                   ELSE "pub const " \o ident \o ": " \o TyText(sized) \o " = "
                           \o r.s \o ";",
             ty |-> sized, lazy |-> should_lazy_static]

\* lines 573-631: a key/value literal against a message type.
StructLit(lit, ty, cc) ==
    IF LitItemKind(ty.did) # "Message" THEN Panic
    ELSE LET fs == MessageFields(ty.did)
             found == [j \in 1..Len(fs) |-> FieldLookup(lit.els, fs[j].name)]
             fields == [j \in 1..Len(fs) |->
                          LET name == RustName(LitNode(fs[j].did), cc)
                          IN IF ~found[j].ok THEN Panic
                             ELSE IF found[j].found
                             THEN SuppliedField(name, fs[j].optional,
                                                LitIntoTy(found[j].v, fs[j].ty, cc))
                             ELSE MissingField(name)]
         IN IF ~AllOk(fields) THEN Panic
            ELSE Ok(RustName(LitNode(ty.did), cc) \o " { "
                       \o JoinWith(Texts(fields), ",") \o " }", AllConst(fields))

\* lines 491-511: an integer against an enum type.
EnumLit(lit, ty) ==
    IF LitItemKind(ty.did) # "Enum" THEN Panic
    ELSE LET vs == EnumVariants(ty.did)
             hit == {j \in 1..Len(vs) : vs[j].discr = lit.i}
         IN IF hit = {} THEN Panic
            ELSE Ok(CurRelatedItemPath(vs[CHOOSE j \in hit : \A h \in hit : j <= h].did),
                    TRUE)

\* lines 461-634
LitIntoTy(lit, ty, cc) ==
    IF lit.k = "Path" THEN IdentIntoTy(lit.i, CodegenTyOf(lit.i), ty)
    ELSE IF lit.k = "String" /\ ty.t = "Str" THEN Ok("\"" \o lit.s \o "\"", TRUE)
    ELSE IF lit.k = "String" /\ ty.t = "String"
    THEN Ok("\"" \o lit.s \o "\".to_string()", FALSE)
    ELSE IF lit.k = "String" /\ ty.t = "FastStr"
    THEN FastStrLit(lit.s)
    ELSE IF lit.k = "Int" /\ ty.t = "I16" THEN Ok(ToString(lit.i) \o "i16", TRUE)
    ELSE IF lit.k = "Int" /\ ty.t = "I32" THEN Ok(ToString(lit.i) \o "i32", TRUE)
    ELSE IF lit.k = "Int" /\ ty.t = "I64" THEN Ok(ToString(lit.i) \o "i64", TRUE)
    ELSE IF lit.k = "Int" /\ ty.t = "F32" THEN Ok(ToString(lit.i) \o "f32", TRUE)
    ELSE IF lit.k = "Int" /\ ty.t = "F64" THEN Ok(ToString(lit.i) \o "f64", TRUE)
    ELSE IF lit.k = "Int" /\ ty.t = "Adt" /\ ty.adt = "Enum" THEN EnumLit(lit, ty)
    ELSE IF lit.k = "Float" /\ ty.t = "F64" THEN Ok(FloatDisplay(lit.s) \o "f64", TRUE)
    ELSE IF ty.t = "Adt" /\ ty.adt = "NewType"
    THEN LET r == LitIntoTy(lit, ty.args[1], cc)
         IN IF ~r.ok THEN Panic
            ELSE Ok(CurRelatedItemPath(ty.did) \o "(" \o r.s \o ")", r.c)
    ELSE IF lit.k = "Map" /\ ty.t = "StaticRef"
    THEN IF ty.args[1].t # "Map" THEN Panic
         ELSE LET lazy_map == DefLit("INNER_MAP", lit, CgLazyStaticRef(ty.args[1]), cc)
              IN IF ~lazy_map.ok THEN Panic
                 ELSE Ok("{ " \o lazy_map.s \o " &*INNER_MAP }", FALSE)
    ELSE IF lit.k = "List" /\ ty.t = "Array"
    THEN LET rs == [j \in 1..Len(lit.els) |-> LitIntoTy(lit.els[j], ty.args[1], cc)]
         IN IF ~AllOk(rs) THEN Panic
            ELSE Ok("[" \o JoinWith(Texts(rs), ",") \o "]", AllConst(rs))
    ELSE IF lit.k = "List" /\ ty.t = "Vec"
    THEN LET rs == [j \in 1..Len(lit.els) |-> LitIntoTy(lit.els[j], ty.args[1], cc)]
         IN IF ~AllOk(rs) THEN Panic
            ELSE Ok("::std::vec![" \o JoinWith(Texts(rs), ",") \o "]", FALSE)
    ELSE IF lit.k = "Bool" /\ ty.t = "Bool" THEN Ok(lit.s, TRUE)
    ELSE IF lit.k = "String" /\ ty.t = "Bytes"
    THEN Ok("::bytes::Bytes::from_static(" \o lit.s \o ".as_bytes())", TRUE)
    ELSE IF lit.k = "Map" /\ ty.t = "Adt" /\ ty.adt = "Struct" THEN StructLit(lit, ty, cc)
    ELSE Panic

(***************************************************************************)
(* One call of lit_into_ty on a literal and a target type.                 *)
(***************************************************************************)
Pair(key, v) == <<key, v>>

\* Literals for the fields of Q.
InnerMaps ==
    {LitMap(<<>>),
     LitMap(<<LitString("x"), LitInt(1)>>),
     LitMap(<<LitString("x"), LitInt(1), LitString("y"), LitString("s")>>),
     LitMap(<<LitString("y"), LitString("s")>>),
     LitMap(<<LitString("x"), LitString("s")>>)}

PairUniverse ==
    {Pair(LitString(key), v) : key \in {"a", "q", "zz"},
                               v \in {LitInt(1), LitString("s")} \cup InnerMaps}
    \cup {Pair(LitString(key), v) : key \in {"x", "y"}, v \in {LitInt(1), LitString("s")}}
    \cup {Pair(LitInt(7), LitInt(1))}

StructTys ==
    {CgAdt(1, "Struct", <<>>), CgAdt(2, "Struct", <<>>), CgAdt(3, "Struct", <<>>),
     CgAdt(4, "Struct", <<>>)}

ScalarLits ==
    {LitInt(1), LitInt(3), LitString("s"), LitBool("true"), LitFloat("1.5"), LitPath(6)}

ScalarTys ==
    {CgPrim(t) : t \in {"Str", "String", "FastStr", "I16", "I32", "I64", "F32", "F64",
                        "Bool", "Bytes"}}
    \cup {CgAdt(4, "Enum", <<>>), CgAdt(5, "NewType", <<CgPrim("I32")>>),
          CgAdt(1, "Struct", <<>>)}

ListTys ==
    {CgArray(CgPrim("I32"), 0), CgVec(CgPrim("I32")), CgVec(CgPrim("String")),
     CgArray(CgPrim("Str"), 0), CgPrim("I32")}

MapTys ==
    {CgMap(CgPrim("Str"), CgPrim("I32")), CgStaticRef(CgMap(CgPrim("Str"), CgPrim("I32"))),
     CgStaticRef(CgPrim("I32"))}

MapLits ==
    {LitMap(<<>>), LitMap(<<LitString("k"), LitInt(1)>>),
     LitMap(<<LitString("k"), LitString("s")>>)}

\* The map type of M's field, and key/value literals whose keys and values
\* it covers.
MapTy == CgMap(CgPrim("Str"), CgPrim("I32"))

EvalMaps ==
    {LitMap(<<>>), LitMap(<<LitString("k"), LitInt(1)>>),
     LitMap(<<LitString("k"), LitInt(1), LitString("j"), LitInt(3)>>)}

\* A map literal as a field of a struct literal, as an element of a list
\* literal and as a value of a map literal.
InField(em) == [lit |-> LitMap(<<LitString("m"), em>>), ty |-> CgAdt(7, "Struct", <<>>)]

InList(em) == [lit |-> LitList(<<em>>), ty |-> CgVec(MapTy)]

InMap(em) == [lit |-> LitMap(<<LitString("o"), em>>), ty |-> CgMap(CgPrim("Str"), MapTy)]

NestedMapInputs == {InField(em) : em \in EvalMaps} \cup {InList(em) : em \in EvalMaps}

\* The default values default_val is called on.
DefaultInputs ==
    {[lit |-> l, ty |-> ty] : l \in MapLits \cup EvalMaps,
                             ty \in {MapTy, CgLazyStaticRef(MapTy),
                                     CgLazyStaticRef(CgPrim("I32"))}}
    \cup NestedMapInputs \cup {InMap(em) : em \in EvalMaps}
    \cup {[lit |-> l, ty |-> ty] : l \in ScalarLits, ty \in ScalarTys}

LitInputs ==
    {[lit |-> LitMap(Flatten(ps)), ty |-> ty] :
        ps \in SeqsUpTo(PairUniverse, MaxPairs), ty \in StructTys}
    \cup {[lit |-> l, ty |-> ty] : l \in ScalarLits, ty \in ScalarTys}
    \cup {[lit |-> LitList(els), ty |-> ty] :
            els \in SeqsUpTo({LitInt(1), LitString("s")}, MaxListLen), ty \in ListTys}
    \cup {[lit |-> l, ty |-> ty] : l \in MapLits, ty \in MapTys}
    \cup NestedMapInputs

LitIntoTyCall ==
    /\ phase = "lit"
    /\ lit_out' = LitIntoTy(lit_in.lit, lit_in.ty, change_case)
    /\ phase' = "lit_done"
    /\ UNCHANGED <<db, mode, cmode, touches, touch_pos, extra_def_ids, input_items,
                   codegen_items, stack, set, scan, visits, map, location_map,
                   warnings, cur_item, calls, change_case, name_in, name_out, lit_in>>

\* default_val, lines 386-399: the default of a field, by lit_as_rvalue.
DefaultVal ==
    /\ phase = "default"
    /\ lit_out' = LitAsRvalue(lit_in.lit, lit_in.ty, change_case)
    /\ phase' = "default_done"
    /\ UNCHANGED <<db, mode, cmode, touches, touch_pos, extra_def_ids, input_items,
                   codegen_items, stack, set, scan, visits, map, location_map,
                   warnings, cur_item, calls, change_case, name_in, name_out, lit_in>>

\* The constants def_lit is called on.
DefInputs ==
    {[name |-> "my_const", lit |-> l, ty |-> ty] : l \in ScalarLits, ty \in ScalarTys}
    \cup {[name |-> "my_const", lit |-> LitList(els), ty |-> ty] :
            els \in SeqsUpTo({LitInt(1), LitString("s")}, MaxListLen), ty \in ListTys}
    \cup {[name |-> "my_const", lit |-> l, ty |-> ty] :
            l \in InnerMaps \cup EvalMaps,
            ty \in {CgAdt(2, "Struct", <<>>), CgAdt(3, "Struct", <<>>), MapTy,
                    CgStaticRef(MapTy)}}

\* def_lit, lines 636-658.
DefLitCall ==
    /\ phase = "def"
    /\ lit_out' = DefLit(lit_in.name, lit_in.lit, lit_in.ty, change_case)
    /\ phase' = "def_done"
    /\ UNCHANGED <<db, mode, cmode, touches, touch_pos, extra_def_ids, input_items,
                   codegen_items, stack, set, scan, visits, map, location_map,
                   warnings, cur_item, calls, change_case, name_in, name_out, lit_in>>

LitInit ==
    /\ db = MkDb(TyPrim("I32"), TyPrim("I32"), TyPrim("I32"), FALSE, FALSE)
    /\ mode = "SingleFile"
    /\ cmode = "All"
    /\ touches = <<>>
    /\ touch_pos = 1
    /\ input_items = <<>>
    /\ extra_def_ids = <<>>
    /\ codegen_items = <<>>
    /\ phase \in {"lit", "default", "def"}
    /\ stack = <<>>
    /\ set = {}
    /\ scan = <<>>
    /\ visits = [d \in DefIds |-> 0]
    /\ map = EmptyMap
    /\ location_map = EmptyMap
    /\ warnings = 0
    /\ cur_item = 0
    /\ calls = <<>>
    /\ change_case \in BOOLEAN
    /\ name_in = <<>>
    /\ name_out = ""
    /\ lit_in \in (CASE phase = "lit" -> LitInputs
                      [] phase = "default" -> DefaultInputs
                      [] phase = "def" -> DefInputs)
    /\ lit_out = <<>>

LitNext == LitIntoTyCall \/ DefaultVal \/ DefLitCall

LitSpec == LitInit /\ [][LitNext]_vars

\* The call evaluated a key/value literal against a message type and returned.
StructCase ==
    /\ phase = "lit_done"
    /\ lit_in.lit.k = "Map"
    /\ lit_in.ty.t = "Adt" /\ lit_in.ty.adt = "Struct"
    /\ LitItemKind(lit_in.ty.did) = "Message"
    /\ lit_out.ok

\* The positions of the keys equal to a field's name.
KeyPositions(lit, name) ==
    {j \in 1..(Len(lit.els) \div 2) :
        lit.els[2 * j - 1].k = "String" /\ lit.els[2 * j - 1].s = name}

Supplied(lit, name) == KeyPositions(lit, name) # {}

SuppliedValue(lit, name) ==
    lit.els[2 * (CHOOSE j \in KeyPositions(lit, name) :
                    \A h \in KeyPositions(lit, name) : j <= h)]

\* What the claim lets a declared field render as.
FieldText(lit, f, cc) ==
    LET name == RustName(LitNode(f.did), cc)
    IN IF Supplied(lit, f.name)
       THEN LET v == LitIntoTy(SuppliedValue(lit, f.name), f.ty, cc).s
            IN name \o ": " \o (IF f.optional THEN "Some(" \o v \o ")" ELSE v)
       ELSE name \o ": Default::default()"

(***************************************************************************)
(* C10 Struct literal classification: a key/value literal evaluated        *)
(* against a message type renders every declared field of the message, in  *)
(* declaration order; a declared field with no key of its name is rendered *)
(* as Default::default() and makes the result non-constant; the result is  *)
(* constant exactly when every declared field is supplied and the          *)
(* evaluation of every supplied value is constant.                         *)
(***************************************************************************)
C10_StructLiteral ==
    StructCase =>
       LET lit == lit_in.lit
           fs == MessageFields(lit_in.ty.did)
           cc == change_case
       IN /\ lit_out.s = RustName(LitNode(lit_in.ty.did), cc) \o " { "
                           \o JoinWith([j \in 1..Len(fs) |-> FieldText(lit, fs[j], cc)], ",")
                           \o " }"
          /\ (\E j \in 1..Len(fs) : ~Supplied(lit, fs[j].name)) => ~lit_out.c
          /\ lit_out.c <=>
                \A j \in 1..Len(fs) :
                   /\ Supplied(lit, fs[j].name)
                   /\ LitIntoTy(SuppliedValue(lit, fs[j].name), fs[j].ty, cc).c

\* A literal for P that supplies a and leaves q out was evaluated: q is the
\* zero-value constructor and the result is not constant.
C10_Witness ==
    /\ StructCase
    /\ lit_in.ty.did = 1
    /\ ~change_case
    /\ Supplied(lit_in.lit, "a") /\ ~Supplied(lit_in.lit, "q")
    /\ lit_out.s = "P { a: 1i32,q: Default::default() }"
    /\ ~lit_out.c

\* What the claim has a key/value literal of EvalMaps render as against MapTy.
ExpectedMap(em) ==
    LET n == Len(em.els) \div 2
    IN "{ let mut map = ::std::collections::HashMap::with_capacity(" \o ToString(n) \o "); "
         \o JoinWith([j \in 1..n |-> "map.insert(\"" \o em.els[2 * j - 1].s \o "\", "
                                        \o ToString(em.els[2 * j].i) \o "i32);"], "")
         \o " map }"

MapCall == phase \in {"lit_done", "default_done"}

(***************************************************************************)
(* C11 Map literal classification: a key/value literal whose keys and      *)
(* values are evaluable, against a map type, never aborts and is the       *)
(* runtime-constructed map with one insert per pair, not constant: as the  *)
(* top-level target of a default value, plain or lazily-initialized, and   *)
(* as a field of a struct literal, an element of a list literal and a      *)
(* value of another map literal.                                           *)
(***************************************************************************)
C11_MapLiteral ==
    \A em \in EvalMaps :
       /\ phase = "default_done" /\ lit_in.lit = em
            /\ lit_in.ty \in {MapTy, CgLazyStaticRef(MapTy)}
          => lit_out = Ok(ExpectedMap(em), FALSE)
       /\ MapCall /\ lit_in = InField(em)
          => lit_out = Ok(RustName(LitNode(7), change_case) \o " { "
                            \o RustName(LitNode(17), change_case) \o ": "
                            \o ExpectedMap(em) \o " }", FALSE)
       /\ MapCall /\ lit_in = InList(em)
          => lit_out = Ok("::std::vec![" \o ExpectedMap(em) \o "]", FALSE)
       /\ phase = "default_done" /\ lit_in = InMap(em)
          => lit_out = Ok("{ let mut map = ::std::collections::HashMap::with_capacity(1); "
                            \o "map.insert(\"o\", " \o ExpectedMap(em) \o "); map }", FALSE)

\* A string literal was evaluated against the primitive type t.
StringCase(t) ==
    /\ phase \in {"lit_done", "default_done"}
    /\ lit_in.lit.k = "String"
    /\ lit_in.ty = CgPrim(t)

\* C12 as claimed: a string literal against FastStr is the quoted literal in
\* a make-owned conversion and is not constant, and against the borrowed
\* string type it is the quoted literal and is constant.
C12_FastStrNotConst ==
    /\ StringCase("FastStr") =>
          /\ lit_out.ok /\ ~lit_out.c
          /\ lit_out.s = "::pilota::FastStr::from_static_str(\"" \o lit_in.lit.s \o "\")"
    /\ StringCase("Str") => lit_out = Ok("\"" \o lit_in.lit.s \o "\"", TRUE)

(***************************************************************************)
(* C12 String to owned handle: a string literal against FastStr is the     *)
(* quoted literal wrapped in FastStr::from_static_str and is constant,     *)
(* like the reference to a &'static str constant against FastStr; it is    *)
(* against String that a string literal is the quoted literal with         *)
(* .to_string() and is not constant; against &'static str it is the quoted *)
(* literal and is constant.                                                *)
(***************************************************************************)
C12_StringTargets ==
    /\ StringCase("FastStr") =>
          lit_out = Ok("::pilota::FastStr::from_static_str(\"" \o lit_in.lit.s \o "\")", TRUE)
    /\ StringCase("String") =>
          lit_out = Ok("\"" \o lit_in.lit.s \o "\".to_string()", FALSE)
    /\ StringCase("Str") => lit_out = Ok("\"" \o lit_in.lit.s \o "\"", TRUE)
    /\ phase \in {"lit_done", "default_done"} /\ lit_in.lit = LitPath(6)
         /\ lit_in.ty = CgPrim("FastStr")
       => lit_out = Ok("::pilota::FastStr::from_static_str(path(C))", TRUE)

\* The string "s" was evaluated against FastStr and came out constant.
C12_Witness ==
    /\ StringCase("FastStr")
    /\ phase = "lit_done"
    /\ lit_in.lit.s = "s"
    /\ lit_out.ok /\ lit_out.c

\* def_lit returned a declaration.
DefCase == phase = "def_done" /\ lit_out.ok

\* The declared type as def_lit leaves it.
Declared ==
    IF lit_in.lit.k = "List" /\ lit_in.ty.t = "Array"
    THEN [lit_in.ty EXCEPT !.size = Len(lit_in.lit.els)] ELSE lit_in.ty

\* The evaluator's result for the value against the declared type.
Evaluated == LitAsRvalue(lit_in.lit, Declared, change_case)

ConstDecl ==
    "pub const " \o ToShoutySnakeCase(lit_in.name) \o ": " \o TyText(Declared)
       \o " = " \o Evaluated.s \o ";"

LazyDecl ==
    "::pilota::lazy_static::lazy_static! { pub static ref "
       \o ToShoutySnakeCase(lit_in.name) \o ": " \o TyText(Declared)
       \o " = " \o Evaluated.s \o "; }"

\* C13 as claimed: def_lit emits the pub const declaration exactly when the
\* evaluator classifies the value against the declared type as constant and
\* the lazy_static global exactly when it classifies it as non-constant,
\* after setting an array's size to the length of a list literal.
C13_FormByClassification ==
    DefCase =>
       /\ lit_out.ty = Declared
       /\ Evaluated.c => lit_out.s = ConstDecl
       /\ ~Evaluated.c => lit_out.s = LazyDecl

(***************************************************************************)
(* C13 Constant declaration form: def_lit emits the lazy_static global     *)
(* exactly when the declared type's should_lazy_static holds, and the pub  *)
(* const declaration otherwise; the form is fixed by the type before the   *)
(* value is evaluated and the evaluator's classification is not used.  For *)
(* a list literal against a fixed array type the array's size is first set *)
(* to the list's length.                                                   *)
(***************************************************************************)
C13_FormByType ==
    DefCase =>
       /\ lit_out.ty = Declared
       /\ lit_in.lit.k = "List" /\ lit_in.ty.t = "Array" =>
             lit_out.ty.size = Len(lit_in.lit.els)
       /\ ShouldLazyStatic(lit_in.ty) => lit_out.s = LazyDecl
       /\ ~ShouldLazyStatic(lit_in.ty) => lit_out.s = ConstDecl

\* A literal of Q supplying both fields, classified constant, was declared
\* as a lazy_static global.
C13_Witness ==
    /\ DefCase
    /\ lit_in.ty = CgAdt(2, "Struct", <<>>)
    /\ Evaluated.ok /\ Evaluated.c
    /\ lit_out.s = LazyDecl
    /\ lit_out.s # ConstDecl

\* A float literal was evaluated against the primitive type t.
FloatCase(t) ==
    /\ phase \in {"lit_done", "default_done"}
    /\ lit_in.lit.k = "Float"
    /\ lit_in.ty = CgPrim(t)

(***************************************************************************)
(* C14 Float literal coverage: a float literal against either floating-    *)
(* point type, f32 or f64, is evaluated without a fatal error to the       *)
(* parsed value with the type's width suffix, and is constant.             *)
(***************************************************************************)
C14_FloatCoverage ==
    /\ FloatCase("F64") => lit_out = Ok(FloatDisplay(lit_in.lit.s) \o "f64", TRUE)
    /\ FloatCase("F32") => lit_out = Ok(FloatDisplay(lit_in.lit.s) \o "f32", TRUE)

\* Context::workspace_info, lines 750-755: the WorkspaceInfo of Mode::Workspace;
\* ok is FALSE when the call panics.
WorkspaceInfo ==
    IF mode = "Workspace" THEN [ok |-> TRUE, location_map |-> location_map]
    ELSE [ok |-> FALSE, location_map |-> EmptyMap]

(***************************************************************************)
(* C15 Location coverage of the selection: in workspace mode, after one    *)
(* call of collect in either collect mode, the keys of the location map    *)
(* are exactly the selected definitions (codegen_items); in single-file    *)
(* mode the placement pass is not run and workspace_info is fatal.         *)
(***************************************************************************)
C15_LocationCoverage ==
    AfterCollect =>
       /\ mode = "Workspace" =>
             /\ WorkspaceInfo.ok
             /\ DOMAIN WorkspaceInfo.location_map = Range(codegen_items)
       /\ mode = "SingleFile" =>
             /\ ~WorkspaceInfo.ok
             /\ location_map = EmptyMap /\ map = EmptyMap

\* Workspace mode, only the used definitions: some are selected and located,
\* including one of a dependency, and some item is neither.
C15_Witness ==
    /\ AfterCollect /\ mode = "Workspace" /\ cmode = "OnlyUsed"
    /\ \E d \in DOMAIN location_map : location_map[d].tag = "Dynamic"
    /\ \E d \in DOMAIN location_map : location_map[d].tag = "Fixed"
    /\ \E d \in DefIds : IsItem(d) /\ ~IsMod(d) /\ d \notin DOMAIN location_map
    /\ DOMAIN location_map = Range(codegen_items)

====
